---- MODULE Spec2Model ----
(***************************************************************************)
(* Model of CurrencyConverter (src/currency_converter.py): the rate table, *)
(* the per-user conversion history and the public operations on them.      *)
(*                                                                         *)
(* Floats are modelled as exact fractions n/d in lowest terms, plus NaN;   *)
(* a value that is not a number at all (a str passed as a rate) is kept    *)
(* apart, because Python's comparison `rate <= 0` treats the three         *)
(* differently.  Currency codes are strings; upper() is modelled on the    *)
(* codes the model uses, and a non-text argument is a token of its own.    *)
(***************************************************************************)
EXTENDS Integers, Sequences, FiniteSets, TLC

VARIABLES
    exchange_rates,       \* self.exchange_rates: (from, to) -> rate
    conversion_history,   \* self.conversion_history: user_id -> list of records
    clock,                \* the wall clock read by datetime.datetime.now()
    last,                 \* the call the caller made last, with its outcome
    updates,              \* number of successful update_exchange_rate calls
    inserted,             \* history: key -> the rate a successful update stored last
    succeeded             \* history: user_ids passed to convert calls that returned

vars == <<exchange_rates, conversion_history, clock, last, updates, inserted, succeeded>>

-----------------------------------------------------------------------------
(* Bounds *)

MaxUpdates == 2
MaxConverts == 2

-----------------------------------------------------------------------------
(* Values *)

RECURSIVE GCD(_, _)
GCD(a, b) == IF b = 0 THEN a ELSE GCD(b, a % b)

Abs(x) == IF x < 0 THEN -x ELSE x

\* a float with a numeric value n/d, d > 0, in lowest terms
Num(n, d) ==
    LET g == GCD(Abs(n), d)
    IN  [kind |-> "num", n |-> n \div g, d |-> d \div g]

NaN == [kind |-> "nan", n |-> 0, d |-> 1]       \* float("nan")
NotANumber == [kind |-> "str", n |-> 0, d |-> 1] \* a str such as "abc"
NoVal == [kind |-> "none", n |-> 0, d |-> 1]     \* no value (the call raised)

One == Num(1, 1)

\* x <= 0 as Python evaluates it: False for NaN, TypeError for a str
LeqZeroRaises(x) == x.kind = "str"
LeqZero(x) == x.kind = "num" /\ x.n <= 0

\* x > 0 in the mathematical sense
StrictlyPositive(x) == x.kind = "num" /\ x.n > 0

\* a * b on floats
Mul(a, b) ==
    IF a.kind = "nan" \/ b.kind = "nan" THEN NaN
    ELSE Num(a.n * b.n, a.d * b.d)

\* 1.0 / x on floats, for x # 0
Reciprocal(x) ==
    IF x.kind = "nan" THEN NaN
    ELSE IF x.n < 0 THEN Num(-x.d, -x.n) ELSE Num(x.d, x.n)

-----------------------------------------------------------------------------
(* Currency codes and user ids *)

NonText == "<int 123>"      \* an argument that is not a str
NoneUser == "<None>"        \* user_id left at its default, None

PIVOT == "USD"

\* every text code the model talks about
TextCodes == {"USD", "EUR", "GBP", "JPY", "CHF", "usd", "eur"}

\* the codes callers pass to get_rate and update_exchange_rate
CodeInputs == {"USD", "eur", "JPY", "CHF", NonText}

\* the codes callers pass to convert
ConvertCodes == {"usd", "EUR", "JPY", NonText}

\* the rates callers pass to update_exchange_rate
RateInputs == {Num(0, 1), Num(-1, 2), Num(2, 1), NaN, NotANumber}

\* the amounts callers pass to convert
AmountInputs == {Num(-50, 1), Num(0, 1), Num(100, 1)}

Users == {"user1", "user2"}
UserInputs == Users \cup {NoneUser, ""}

isinstance_str(c) == c # NonText

\* str.upper()
upper(c) ==
    CASE c = "usd" -> "USD"
      [] c = "eur" -> "EUR"
      [] OTHER -> c

\* truth value of user_id in `if user_id:`
Truthy(u) == u # NoneUser /\ u # ""

-----------------------------------------------------------------------------
(* Outcomes of a call *)

NoPair == <<"", "">>

NoRec == [original_amount |-> NoVal, from_currency |-> "", to_currency |-> "",
          converted_amount |-> NoVal, exchange_rate |-> NoVal, timestamp |-> -1]

Returns(v) == [status |-> "ok", val |-> v, msg |-> "", named |-> NoPair]

Raises(exc, msg, pair) == [status |-> exc, val |-> NoVal, msg |-> msg, named |-> pair]

NotFound(a, b) == Raises("ValueError", "No exchange rate found", <<a, b>>)

-----------------------------------------------------------------------------
(* get_rate *)

\* the two legs, once both are known to exist and to be non-zero
CrossRate(t, from, to) ==
    LET from_to_usd == IF <<from, PIVOT>> \in DOMAIN t
                       THEN t[<<from, PIVOT>>]
                       ELSE Reciprocal(t[<<PIVOT, from>>])
        usd_to_to == IF <<PIVOT, to>> \in DOMAIN t
                     THEN t[<<PIVOT, to>>]
                     ELSE Reciprocal(t[<<to, PIVOT>>])
    IN  Mul(from_to_usd, usd_to_to)

\* bug: the table is consulted before the from == to shortcut
get_rate_lookup_first(t, from, to) ==
    IF ~isinstance_str(from) \/ ~isinstance_str(to)
    THEN Raises("ValueError", "Currency codes must be strings", NoPair)
    ELSE IF <<from, to>> \in DOMAIN t THEN Returns(t[<<from, to>>])
    ELSE IF from = to THEN Returns(One)
    ELSE IF from # PIVOT /\ to # PIVOT
    THEN IF <<from, PIVOT>> \notin DOMAIN t /\ <<PIVOT, from>> \notin DOMAIN t
         THEN NotFound(from, PIVOT)
         ELSE IF <<PIVOT, to>> \notin DOMAIN t /\ <<to, PIVOT>> \notin DOMAIN t
         THEN NotFound(PIVOT, to)
         ELSE Returns(CrossRate(t, from, to))
    ELSE NotFound(from, to)

\* bug: every failure reports the pair that was asked for
get_rate_names_request(t, from, to) ==
    IF ~isinstance_str(from) \/ ~isinstance_str(to)
    THEN Raises("ValueError", "Currency codes must be strings", NoPair)
    ELSE IF from = to THEN Returns(One)
    ELSE IF <<from, to>> \in DOMAIN t THEN Returns(t[<<from, to>>])
    ELSE IF from # PIVOT /\ to # PIVOT
    THEN IF <<from, PIVOT>> \notin DOMAIN t /\ <<PIVOT, from>> \notin DOMAIN t
         THEN NotFound(from, to)
         ELSE IF <<PIVOT, to>> \notin DOMAIN t /\ <<to, PIVOT>> \notin DOMAIN t
         THEN NotFound(from, to)
         ELSE Returns(CrossRate(t, from, to))
    ELSE NotFound(from, to)

\* bug: a missing direct entry falls back on the reciprocal of the reverse entry
get_rate_inverts_reverse(t, from, to) ==
    IF ~isinstance_str(from) \/ ~isinstance_str(to)
    THEN Raises("ValueError", "Currency codes must be strings", NoPair)
    ELSE IF from = to THEN Returns(One)
    ELSE IF <<from, to>> \in DOMAIN t THEN Returns(t[<<from, to>>])
    ELSE IF <<to, from>> \in DOMAIN t THEN Returns(Reciprocal(t[<<to, from>>]))
    ELSE IF from # PIVOT /\ to # PIVOT
    THEN IF <<from, PIVOT>> \notin DOMAIN t /\ <<PIVOT, from>> \notin DOMAIN t
         THEN NotFound(from, PIVOT)
         ELSE IF <<PIVOT, to>> \notin DOMAIN t /\ <<to, PIVOT>> \notin DOMAIN t
         THEN NotFound(PIVOT, to)
         ELSE Returns(CrossRate(t, from, to))
    ELSE NotFound(from, to)

get_rate(t, from, to) ==
    IF ~isinstance_str(from) \/ ~isinstance_str(to)
    THEN Raises("ValueError", "Currency codes must be strings", NoPair)
    ELSE IF from = to THEN Returns(One)
    ELSE IF <<from, to>> \in DOMAIN t THEN Returns(t[<<from, to>>])
    ELSE IF from # PIVOT /\ to # PIVOT
    THEN IF <<from, PIVOT>> \notin DOMAIN t /\ <<PIVOT, from>> \notin DOMAIN t
         THEN NotFound(from, PIVOT)
         ELSE IF <<from, PIVOT>> \notin DOMAIN t /\ t[<<PIVOT, from>>] = Num(0, 1)
         THEN Raises("ZeroDivisionError", "float division by zero", NoPair)
         ELSE IF <<PIVOT, to>> \notin DOMAIN t /\ <<to, PIVOT>> \notin DOMAIN t
         THEN NotFound(PIVOT, to)
         ELSE IF <<PIVOT, to>> \notin DOMAIN t /\ t[<<to, PIVOT>>] = Num(0, 1)
         THEN Raises("ZeroDivisionError", "float division by zero", NoPair)
         ELSE Returns(CrossRate(t, from, to))
    ELSE NotFound(from, to)

-----------------------------------------------------------------------------
(* update_exchange_rate *)

Store(t, key, rate) == [k \in DOMAIN t \cup {key} |-> IF k = key THEN rate ELSE t[k]]

\* bug: the key is stored as given, not upper-cased
update_exchange_rate_raw_key(t, from, to, rate) ==
    IF ~isinstance_str(from) \/ ~isinstance_str(to)
    THEN [status |-> "ok", flag |-> FALSE, table |-> t]
    ELSE IF LeqZeroRaises(rate)
    THEN [status |-> "TypeError", flag |-> FALSE, table |-> t]
    ELSE IF LeqZero(rate)
    THEN [status |-> "ok", flag |-> FALSE, table |-> t]
    ELSE [status |-> "ok", flag |-> TRUE, table |-> Store(t, <<from, to>>, rate)]

\* bug: the reverse pair is stored too, as the reciprocal
update_exchange_rate_both_ways(t, from, to, rate) ==
    IF ~isinstance_str(from) \/ ~isinstance_str(to)
    THEN [status |-> "ok", flag |-> FALSE, table |-> t]
    ELSE IF LeqZeroRaises(rate)
    THEN [status |-> "TypeError", flag |-> FALSE, table |-> t]
    ELSE IF LeqZero(rate)
    THEN [status |-> "ok", flag |-> FALSE, table |-> t]
    ELSE [status |-> "ok", flag |-> TRUE,
          table |-> Store(Store(t, <<upper(to), upper(from)>>, Reciprocal(rate)),
                          <<upper(from), upper(to)>>, rate)]

\* the outcome (status, returned flag) and the table afterwards
update_exchange_rate(t, from, to, rate) ==
    IF ~isinstance_str(from) \/ ~isinstance_str(to)
    THEN [status |-> "ok", flag |-> FALSE, table |-> t]
    ELSE IF LeqZeroRaises(rate)
    THEN [status |-> "TypeError", flag |-> FALSE, table |-> t]
    ELSE IF LeqZero(rate)
    THEN [status |-> "ok", flag |-> FALSE, table |-> t]
    ELSE [status |-> "ok", flag |-> TRUE,
          table |-> Store(t, <<upper(from), upper(to)>>, rate)]

-----------------------------------------------------------------------------
(* convert, get_user_history, clear_user_history *)

Record(h, u, rec) ==
    [k \in DOMAIN h \cup {u} |-> IF k = u
                                 THEN (IF u \in DOMAIN h THEN Append(h[u], rec) ELSE <<rec>>)
                                 ELSE h[k]]

\* bug: the record replaces the user's list instead of being appended to it
convert_overwrites(t, h, now, amount, from, to, user_id) ==
    IF amount.n <= 0
    THEN [out |-> Raises("ValueError", "Amount must be positive", NoPair),
          rec |-> NoRec, history |-> h]
    ELSE IF ~isinstance_str(from) \/ ~isinstance_str(to)
    THEN [out |-> Raises("AttributeError", "no attribute 'upper'", NoPair),
          rec |-> NoRec, history |-> h]
    ELSE LET rate == get_rate(t, upper(from), upper(to))
             result == [original_amount |-> amount,
                        from_currency |-> upper(from),
                        to_currency |-> upper(to),
                        converted_amount |-> Mul(amount, rate.val),
                        exchange_rate |-> rate.val,
                        timestamp |-> now]
         IN  IF rate.status # "ok"
             THEN [out |-> rate, rec |-> NoRec, history |-> h]
             ELSE [out |-> Returns(rate.val), rec |-> result,
                   history |-> IF Truthy(user_id) THEN Store(h, user_id, <<result>>)
                               ELSE h]

\* bug: the user's history entry is created before the rate is resolved
convert_creates_entry_first(t, h, now, amount, from, to, user_id) ==
    IF amount.n <= 0
    THEN [out |-> Raises("ValueError", "Amount must be positive", NoPair),
          rec |-> NoRec, history |-> h]
    ELSE IF ~isinstance_str(from) \/ ~isinstance_str(to)
    THEN [out |-> Raises("AttributeError", "no attribute 'upper'", NoPair),
          rec |-> NoRec, history |-> h]
    ELSE LET rate == get_rate(t, upper(from), upper(to))
             result == [original_amount |-> amount,
                        from_currency |-> upper(from),
                        to_currency |-> upper(to),
                        converted_amount |-> Mul(amount, rate.val),
                        exchange_rate |-> rate.val,
                        timestamp |-> now]
             h0 == IF Truthy(user_id) /\ user_id \notin DOMAIN h
                   THEN Store(h, user_id, <<>>) ELSE h
         IN  IF rate.status # "ok"
             THEN [out |-> rate, rec |-> NoRec, history |-> h0]
             ELSE [out |-> Returns(rate.val), rec |-> result,
                   history |-> IF Truthy(user_id) THEN Record(h, user_id, result) ELSE h]

\* the outcome, the record returned and the history map afterwards
convert(t, h, now, amount, from, to, user_id) ==
    IF amount.n <= 0
    THEN [out |-> Raises("ValueError", "Amount must be positive", NoPair),
          rec |-> NoRec, history |-> h]
    ELSE IF ~isinstance_str(from) \/ ~isinstance_str(to)
    THEN [out |-> Raises("AttributeError", "no attribute 'upper'", NoPair),
          rec |-> NoRec, history |-> h]
    ELSE LET rate == get_rate(t, upper(from), upper(to))
             result == [original_amount |-> amount,
                        from_currency |-> upper(from),
                        to_currency |-> upper(to),
                        converted_amount |-> Mul(amount, rate.val),
                        exchange_rate |-> rate.val,
                        timestamp |-> now]
         IN  IF rate.status # "ok"
             THEN [out |-> rate, rec |-> NoRec, history |-> h]
             ELSE [out |-> Returns(rate.val), rec |-> result,
                   history |-> IF Truthy(user_id) THEN Record(h, user_id, result) ELSE h]

\* the list returned and the history map afterwards
get_user_history(h, user_id) ==
    [list |-> IF user_id \in DOMAIN h THEN h[user_id] ELSE <<>>, history |-> h]

\* bug: the user's entry is deleted instead of being emptied
clear_user_history_deletes(h, user_id) ==
    IF user_id \in DOMAIN h
    THEN [flag |-> TRUE, history |-> [k \in DOMAIN h \ {user_id} |-> h[k]]]
    ELSE [flag |-> FALSE, history |-> h]

\* the flag returned and the history map afterwards
clear_user_history(h, user_id) ==
    IF user_id \in DOMAIN h
    THEN [flag |-> TRUE, history |-> [h EXCEPT ![user_id] = <<>>]]
    ELSE [flag |-> FALSE, history |-> h]

-----------------------------------------------------------------------------
(* The state *)

NoCall == [op |-> "none", from |-> "", to |-> "", rate |-> NoVal, amount |-> NoVal,
           user |-> "", status |-> "", val |-> NoVal, msg |-> "", named |-> NoPair,
           flag |-> FALSE, rec |-> NoRec, hist |-> <<>>]

InitialRates ==
    [k \in {<<"USD", "EUR">>, <<"USD", "GBP">>, <<"EUR", "USD">>, <<"GBP", "USD">>} |->
        CASE k = <<"USD", "EUR">> -> Num(91, 100)
          [] k = <<"USD", "GBP">> -> Num(77, 100)
          [] k = <<"EUR", "USD">> -> Num(110, 100)
          [] k = <<"GBP", "USD">> -> Num(130, 100)]

Init ==
    /\ exchange_rates = InitialRates
    /\ conversion_history = <<>>
    /\ clock = 0
    /\ last = NoCall
    /\ updates = 0
    /\ inserted = <<>>
    /\ succeeded = {}

-----------------------------------------------------------------------------
(* The calls.  The caller is sequential: it makes a call, looks at the     *)
(* outcome (last), and goes on to the next call.                           *)

GetRate(from, to) ==
    /\ last.op = "none"
    /\ LET r == get_rate(exchange_rates, from, to)
       IN  last' = [NoCall EXCEPT !.op = "get_rate", !.from = from, !.to = to,
                                  !.status = r.status, !.val = r.val,
                                  !.msg = r.msg, !.named = r.named]
    /\ UNCHANGED <<exchange_rates, conversion_history, clock, updates, inserted, succeeded>>

UpdateExchangeRate(from, to, rate) ==
    /\ last.op = "none"
    /\ LET r == update_exchange_rate(exchange_rates, from, to, rate)
           key == <<upper(from), upper(to)>>
       IN  /\ r.flag => updates < MaxUpdates
           /\ exchange_rates' = r.table
           /\ updates' = IF r.flag THEN updates + 1 ELSE updates
           /\ inserted' = IF r.flag THEN Store(inserted, key, rate) ELSE inserted
           /\ last' = [NoCall EXCEPT !.op = "update_exchange_rate", !.from = from,
                                      !.to = to, !.rate = rate,
                                      !.status = r.status, !.flag = r.flag]
    /\ UNCHANGED <<conversion_history, clock, succeeded>>

Convert(amount, from, to, user_id) ==
    /\ last.op = "none"
    /\ LET r == convert(exchange_rates, conversion_history, clock, amount, from, to, user_id)
       IN  /\ r.out.status = "ok" => clock < MaxConverts
           /\ conversion_history' = r.history
           /\ clock' = IF r.out.status = "ok" THEN clock + 1 ELSE clock
           /\ succeeded' = IF r.out.status = "ok" THEN succeeded \cup {user_id}
                           ELSE succeeded
           /\ last' = [NoCall EXCEPT !.op = "convert", !.amount = amount, !.from = from,
                                      !.to = to, !.user = user_id,
                                      !.status = r.out.status, !.val = r.out.val,
                                      !.msg = r.out.msg, !.named = r.out.named,
                                      !.rec = r.rec]
    /\ UNCHANGED <<exchange_rates, updates, inserted>>

GetUserHistory(user_id) ==
    /\ last.op = "none"
    /\ LET r == get_user_history(conversion_history, user_id)
       IN  /\ conversion_history' = r.history
           /\ last' = [NoCall EXCEPT !.op = "get_user_history", !.user = user_id,
                                      !.status = "ok", !.hist = r.list]
    /\ UNCHANGED <<exchange_rates, clock, updates, inserted, succeeded>>

ClearUserHistory(user_id) ==
    /\ last.op = "none"
    /\ LET r == clear_user_history(conversion_history, user_id)
       IN  /\ conversion_history' = r.history
           /\ last' = [NoCall EXCEPT !.op = "clear_user_history", !.user = user_id,
                                      !.status = "ok", !.flag = r.flag]
    /\ UNCHANGED <<exchange_rates, clock, updates, inserted, succeeded>>

\* the caller is done with the outcome of the last call
Resume ==
    /\ last.op # "none"
    /\ last' = NoCall
    /\ UNCHANGED <<exchange_rates, conversion_history, clock, updates, inserted, succeeded>>

NextRates ==
    \/ \E from \in CodeInputs, to \in CodeInputs : GetRate(from, to)
    \/ \E from \in CodeInputs, to \in CodeInputs, rate \in RateInputs :
          UpdateExchangeRate(from, to, rate)
    \/ Resume

\* the rate table under update_exchange_rate and get_rate, which never touch
\* the history map
SpecRates == Init /\ [][NextRates]_vars

NextHistory ==
    \/ \E amount \in AmountInputs, from \in ConvertCodes, to \in ConvertCodes,
          user_id \in UserInputs : Convert(amount, from, to, user_id)
    \/ \E user_id \in UserInputs : GetUserHistory(user_id)
    \/ \E user_id \in UserInputs : ClearUserHistory(user_id)
    \/ Resume

\* the history map under convert, get_user_history and clear_user_history, which
\* never write the rate table
SpecHistory == Init /\ [][NextHistory]_vars

Next ==
    \/ \E from \in CodeInputs, to \in CodeInputs : GetRate(from, to)
    \/ \E from \in CodeInputs, to \in CodeInputs, rate \in RateInputs :
          UpdateExchangeRate(from, to, rate)
    \/ \E amount \in AmountInputs, from \in ConvertCodes, to \in ConvertCodes,
          user_id \in UserInputs : Convert(amount, from, to, user_id)
    \/ \E user_id \in UserInputs : GetUserHistory(user_id)
    \/ \E user_id \in UserInputs : ClearUserHistory(user_id)
    \/ Resume

Spec == Init /\ [][Next]_vars

-----------------------------------------------------------------------------
(* Claims *)

Table == exchange_rates
History == conversion_history

HistoryOf(h, u) == IF u \in DOMAIN h THEN h[u] ELSE <<>>

\* C1: update_exchange_rate never raises; on every input that fails validation
\* (from or to not text, or rate not a strictly positive number) it returns
\* False and leaves the rate table unchanged.
C1_UpdateNeverRaises ==
    [][last'.op = "update_exchange_rate" =>
          /\ last'.status = "ok"
          /\ ~(/\ isinstance_str(last'.from)
               /\ isinstance_str(last'.to)
               /\ StrictlyPositive(last'.rate))
             => (last'.flag = FALSE /\ exchange_rates' = exchange_rates)]_vars

\* C2 as stated: for every entry (A, B, r) stored by a successful update,
\* get_rate(A, B) returns exactly r until the pair is updated again (stated
\* here for the rates r that are strictly positive numbers).
C2_InsertedRateReturned ==
    \A k \in DOMAIN inserted :
        StrictlyPositive(inserted[k]) =>
            get_rate(Table, k[1], k[2]) = Returns(inserted[k])

\* C2 amended: for every entry (A, B, r) with A # B stored by a successful
\* update (A, B the upper-cased codes), get_rate(A, B) returns exactly r until
\* the pair is updated again.
C2_InsertedRateReturnedDistinct ==
    \A k \in DOMAIN inserted :
        k[1] # k[2] => get_rate(Table, k[1], k[2]) = Returns(inserted[k])

C2_Witness ==
    /\ last.op = "get_rate"
    /\ last.from # last.to
    /\ <<last.from, last.to>> \in DOMAIN inserted
    /\ last.status = "ok"
    /\ last.val = inserted[<<last.from, last.to>>]
    /\ updates = 2

HasFromLeg(t, from) == <<from, PIVOT>> \in DOMAIN t \/ <<PIVOT, from>> \in DOMAIN t
HasToLeg(t, to) == <<PIVOT, to>> \in DOMAIN t \/ <<to, PIVOT>> \in DOMAIN t

\* a two-hop path through the pivot exists for (from, to)
TwoHop(t, from, to) ==
    from # PIVOT /\ to # PIVOT /\ HasFromLeg(t, from) /\ HasToLeg(t, to)

IsNotFound(r) == r.status = "ValueError" /\ r.msg = "No exchange rate found"

\* C3 as stated: whenever (A, B) is a table entry, (B, A) is not, and A # B,
\* get_rate(B, A) raises the rate-not-found error (stated here for the tables
\* whose rates are all strictly positive numbers).
C3_ReverseUndefined ==
    (\A k \in DOMAIN Table : StrictlyPositive(Table[k])) =>
        \A a \in TextCodes, b \in TextCodes :
            (a # b /\ <<a, b>> \in DOMAIN Table /\ <<b, a>> \notin DOMAIN Table)
                => IsNotFound(get_rate(Table, b, a))

C3_ReverseOnlyThroughPivot ==
    \A a \in TextCodes, b \in TextCodes :
        (a # b /\ <<a, b>> \in DOMAIN Table /\ <<b, a>> \notin DOMAIN Table)
            => IF TwoHop(Table, b, a)
               THEN get_rate(Table, b, a) = Returns(CrossRate(Table, b, a))
               ELSE IsNotFound(get_rate(Table, b, a))

C3_UpdateLeavesReverse ==
    (/\ last'.op = "update_exchange_rate"
     /\ last'.flag
     /\ upper(last'.from) # upper(last'.to))
        => LET a == upper(last'.from)
               b == upper(last'.to)
           IN  /\ (<<b, a>> \in DOMAIN exchange_rates') = (<<b, a>> \in DOMAIN exchange_rates)
               /\ get_rate(exchange_rates', b, a) = get_rate(exchange_rates, b, a)

\* C3 amended: whenever (A, B) is a table entry, (B, A) is not, and A # B,
\* get_rate(B, A) never uses the (A, B) entry: it raises the rate-not-found
\* error unless neither code is USD and both legs of the path through USD
\* exist, and then it returns the product of the two legs; a successful
\* update_exchange_rate(A, B, r) with A # B neither adds the (B, A) entry nor
\* changes what get_rate(B, A) does.
C3_Asymmetry == []C3_ReverseOnlyThroughPivot /\ [][C3_UpdateLeavesReverse]_vars

C3_Witness ==
    /\ last.op = "get_rate"
    /\ last.from # last.to
    /\ <<last.to, last.from>> \in DOMAIN inserted
    /\ <<last.from, last.to>> \notin DOMAIN Table
    /\ IsNotFound(last)

\* C4: for every text code X and every reachable rate table, an explicit
\* (X, X) entry included, get_rate(X, X) returns 1.0.
C4_SelfRateIsOne ==
    \A x \in TextCodes : get_rate(Table, x, x) = Returns(One)

C4_Witness ==
    /\ last.op = "get_rate"
    /\ last.from = last.to
    /\ <<last.from, last.to>> \in DOMAIN Table
    /\ Table[<<last.from, last.to>>] # One
    /\ last.status = "ok"
    /\ last.val = One

\* no direct entry and no viable two-hop path through the pivot
Unreachable(t, from, to) ==
    from # to /\ <<from, to>> \notin DOMAIN t /\ ~TwoHop(t, from, to)

\* C5 as stated: get_rate on an unreachable pair raises a resolution error
\* that names the pair (from, to) that was asked for.
C5_ErrorNamesRequestedPair ==
    \A from \in TextCodes, to \in TextCodes :
        Unreachable(Table, from, to) => get_rate(Table, from, to) = NotFound(from, to)

\* C5 amended: get_rate on an unreachable pair raises a resolution error that
\* names a missing pair: the pair asked for when from or to is USD; otherwise
\* the first missing leg, (from, USD) when from has no entry with USD in either
\* direction, else (USD, to).
C5_ErrorNamesMissingPair ==
    \A from \in TextCodes, to \in TextCodes :
        Unreachable(Table, from, to) =>
            get_rate(Table, from, to) =
                IF from = PIVOT \/ to = PIVOT THEN NotFound(from, to)
                ELSE IF ~HasFromLeg(Table, from) THEN NotFound(from, PIVOT)
                ELSE NotFound(PIVOT, to)

C5_Witness ==
    /\ last.op = "get_rate"
    /\ Unreachable(Table, last.from, last.to)
    /\ HasFromLeg(Table, last.from)
    /\ <<last.from, PIVOT>> \in DOMAIN inserted
    /\ IsNotFound(last)
    /\ last.named = <<PIVOT, last.to>>

\* C9: in every reachable state every rate stored in the table is strictly
\* positive.
C9_StoredRatesPositive ==
    \A k \in DOMAIN Table : StrictlyPositive(Table[k])

\* the leg from -> USD as the reference resolution states it
RefFromLeg(t, from) ==
    CASE <<from, PIVOT>> \in DOMAIN t -> [found |-> TRUE, val |-> t[<<from, PIVOT>>]]
      [] <<from, PIVOT>> \notin DOMAIN t /\ <<PIVOT, from>> \in DOMAIN t ->
            [found |-> TRUE, val |-> Reciprocal(t[<<PIVOT, from>>])]
      [] OTHER -> [found |-> FALSE, val |-> NoVal]

\* the leg USD -> to as the reference resolution states it
RefToLeg(t, to) ==
    CASE <<PIVOT, to>> \in DOMAIN t -> [found |-> TRUE, val |-> t[<<PIVOT, to>>]]
      [] <<PIVOT, to>> \notin DOMAIN t /\ <<to, PIVOT>> \in DOMAIN t ->
            [found |-> TRUE, val |-> Reciprocal(t[<<to, PIVOT>>])]
      [] OTHER -> [found |-> FALSE, val |-> NoVal]

\* the reference resolution of a pair of distinct text codes
RefRate(t, from, to) ==
    CASE <<from, to>> \in DOMAIN t -> [found |-> TRUE, val |-> t[<<from, to>>]]
      [] <<from, to>> \notin DOMAIN t /\ (from = PIVOT \/ to = PIVOT) ->
            [found |-> FALSE, val |-> NoVal]
      [] OTHER ->
            LET a == RefFromLeg(t, from)
                b == RefToLeg(t, to)
            IN  IF a.found /\ b.found
                THEN [found |-> TRUE, val |-> Mul(a.val, b.val)]
                ELSE [found |-> FALSE, val |-> NoVal]

\* C10: for every reachable rate table and every pair of distinct text codes,
\* get_rate equals the reference resolution: the direct entry when present;
\* otherwise, only when neither code is USD, the product of the two legs, each
\* the direct entry or else the reciprocal of the reversed one; it fails when
\* a leg is missing, and when from or to is USD and there is no direct entry,
\* even if the reverse entry exists.
C10_MatchesReference ==
    \A from \in TextCodes, to \in TextCodes :
        from # to =>
            LET r == get_rate(Table, from, to)
                ref == RefRate(Table, from, to)
            IN  IF ref.found THEN r = Returns(ref.val) ELSE IsNotFound(r)

C10_Witness ==
    /\ last.op = "get_rate"
    /\ last.status = "ok"
    /\ <<last.from, last.to>> \notin DOMAIN Table
    /\ <<last.from, PIVOT>> \notin DOMAIN Table
    /\ <<PIVOT, last.to>> \notin DOMAIN Table
    /\ <<PIVOT, last.from>> \in DOMAIN inserted
    /\ <<last.to, PIVOT>> \in DOMAIN inserted
    /\ StrictlyPositive(last.val)
    /\ last.val = Mul(Reciprocal(Table[<<PIVOT, last.from>>]),
                      Reciprocal(Table[<<last.to, PIVOT>>]))

\* C6: every convert call that returns a record and was given a user_id
\* appends exactly that record at the end of that user's history, keeps the
\* earlier records in order and leaves every other user's history unchanged;
\* a convert call without a user_id (None or empty) leaves the history map
\* unchanged.
C6_ConvertAppends ==
    [][last'.op = "convert" =>
          IF Truthy(last'.user)
          THEN last'.status = "ok" =>
                  /\ DOMAIN conversion_history' = DOMAIN conversion_history \cup {last'.user}
                  /\ conversion_history'[last'.user] =
                        Append(HistoryOf(conversion_history, last'.user), last'.rec)
                  /\ last'.rec # NoRec
                  /\ \A v \in DOMAIN conversion_history \ {last'.user} :
                        conversion_history'[v] = conversion_history[v]
          ELSE conversion_history' = conversion_history]_vars

C6_Witness ==
    /\ last.op = "convert"
    /\ last.status = "ok"
    /\ last.user \in DOMAIN History
    /\ Len(History[last.user]) = 2
    /\ History[last.user][2] = last.rec
    /\ History[last.user][1].timestamp < last.rec.timestamp

\* C7: convert never changes the rate table, and a convert call that fails
\* (amount <= 0, or the rate cannot be resolved) raises and changes neither
\* store: no record is appended and no history entry is created.
C7_FailedConvertChangesNothing ==
    [][last'.op = "convert" =>
          /\ exchange_rates' = exchange_rates
          /\ (\/ last'.amount.n <= 0
              \/ ~isinstance_str(last'.from)
              \/ ~isinstance_str(last'.to)
              \/ get_rate(exchange_rates, upper(last'.from), upper(last'.to)).status # "ok")
             => last'.status # "ok"
          /\ last'.status # "ok" =>
                /\ conversion_history' = conversion_history
                /\ DOMAIN conversion_history' = DOMAIN conversion_history]_vars

C7_Witness ==
    /\ last.op = "convert"
    /\ last.amount.n > 0
    /\ IsNotFound(last)
    /\ Truthy(last.user)
    /\ last.user \notin DOMAIN History

C8_EntryIffConverted ==
    DOMAIN History = {u \in succeeded : Truthy(u)}

C8_ClearStep ==
    /\ last'.op = "clear_user_history" =>
          IF last'.user \in DOMAIN conversion_history
          THEN /\ last'.flag = TRUE
               /\ conversion_history' = [conversion_history EXCEPT ![last'.user] = <<>>]
          ELSE /\ last'.flag = FALSE
               /\ conversion_history' = conversion_history
    /\ last'.op = "get_user_history" =>
          /\ conversion_history' = conversion_history
          /\ last'.hist = HistoryOf(conversion_history, last'.user)

\* C8: clear_user_history(u) returns True and leaves u's history empty exactly
\* when u has a history entry, that is when some earlier convert with the
\* (non-empty) user_id u succeeded, an already cleared entry included;
\* otherwise it returns False and changes nothing.  get_user_history never
\* creates an entry.
C8_ClearExactlyKnownUsers == []C8_EntryIffConverted /\ [][C8_ClearStep]_vars

C8_Witness ==
    /\ last.op = "clear_user_history"
    /\ last.flag = TRUE
    /\ last.user \in succeeded
    /\ History[last.user] = <<>>
    /\ \E v \in DOMAIN History : v # last.user /\ History[v] # <<>>

====
